---- MODULE Spec2Model ----
(***************************************************************************)
(* bonomen: detection of critical-process impersonation (src/main.rs).     *)
(* One run of main(): privilege check, read_procs_file, the platform's     *)
(* process enumeration, the platform's impersonation check, the final      *)
(* report.  Strings are sequences of one-character strings.                *)
(***************************************************************************)
EXTENDS Integers, Sequences, FiniteSets, TLC

VARIABLES
    platform,         \* "unix" | "windows": the cfg the binary was built with
    verb_mode,        \* main: the --verbose flag
    pc,               \* main's position
    panic_msg,        \* the panic that ended the run, "" when none
    line,             \* history: how many lines were read, and the text of the last
    crit_proc_vec,    \* read_procs_file: procs / main: crit_proc_vec
    sys_procs_vec,    \* main: sys_procs_vec
    enumerated,       \* history: a process enumeration step was taken
    enum_error,       \* "K32EnumProcesses failed!" was printed
    processes,        \* read_win_system_procs: the PIDs K32EnumProcesses wrote
    i,                \* read_win_system_procs: the loop index (1-based)
    win_pc,           \* read_win_system_procs: position inside one iteration
    h_process,        \* read_win_system_procs: the handle of this iteration
    open_handles,     \* the PIDs whose handle is open and not closed
    sz_process_name,  \* read_win_system_procs: the wide name buffer
    sz_process_path,  \* read_win_system_procs: the wide path buffer
    win_procs,        \* read_win_system_procs: the result vector
    win_log,          \* history: per PID, what the OS answered
    pi,               \* *_check_procs_impers: index of sys_proc (1-based)
    ri,               \* *_check_procs_impers: index of crit_proc (1-based)
    exe_path,         \* unix_check_procs_impers: exe_path of the current sys_proc
    exe_log,          \* history: per unix process, the result of exe()
    susp_procs,       \* *_check_procs_impers: susp_procs
    findings,         \* the "Suspicious: ..." lines printed so far
    compared,         \* history: number of (process, rule) comparisons made
    r,                \* main: r
    final_count       \* the number printed by "Found {} suspicious processes", -1 before

vars == <<platform, verb_mode, pc, panic_msg, line, crit_proc_vec,
          sys_procs_vec, enumerated, enum_error, processes, i, win_pc, h_process,
          open_handles, sz_process_name, sz_process_path, win_procs, win_log,
          pi, ri, exe_path, exe_log, susp_procs, findings, compared, r, final_count>>

fileVars == <<line, crit_proc_vec>>
winVars  == <<processes, i, win_pc, h_process, open_handles, sz_process_name,
              sz_process_path, win_procs, win_log>>
detVars  == <<pi, ri, exe_path, exe_log, susp_procs, findings, compared>>

----------------------------------------------------------------------------
(* Bounds of the model *)

\* lines the rules file has at most
MaxLines == 2
\* processes the OS lists at most
MaxProcs == 2

(* Program constants *)

NAME_SZ == 64
PATH_SZ == 254
SIZE == 1024

----------------------------------------------------------------------------
(* Strings *)

Min2(a, b) == IF a <= b THEN a ELSE b

svc == <<"s", "v", "c">>
scv == <<"s", "c", "v">>
sv  == <<"s", "v">>
c1  == <<"c">>
path_p  == <<"/", "p">>
path_P  == <<"/", "P">>
path_x  == <<"/", "x">>
\* the text of the io::Error of a failed exe(): why.to_string()
err_text == <<"E">>
\* a path that is not valid UTF-8 (to_str() gives None)
non_utf8 == <<"/", "?">>
\* a wide string with an unpaired surrogate (from_utf16 gives Err)
lone_surrogate == "?"
NUL == "NUL"

Digits == {"0", "1", "2", "3", "4", "5", "6", "7", "8", "9"}
DigitVal(d) ==
    CASE d = "0" -> 0 [] d = "1" -> 1 [] d = "2" -> 2 [] d = "3" -> 3
      [] d = "4" -> 4 [] d = "5" -> 5 [] d = "6" -> 6 [] d = "7" -> 7
      [] d = "8" -> 8 [] d = "9" -> 9

----------------------------------------------------------------------------
(* read_procs_file *)

\* the line whose ';'-separated fields are f (the inverse of split when no
\* field holds a ';')
RECURSIVE Join(_)
Join(f) ==
    IF Len(f) = 0 THEN <<>>
    ELSE IF Len(f) = 1 THEN f[1]
    ELSE f[1] \o <<";">> \o Join(Tail(f))

\* line.split(';').map(|s| s.to_string()).collect()
RECURSIVE Split(_)
Split(s) ==
    LET at == {k \in 1..Len(s) : s[k] = ";"} IN
    IF at = {} THEN <<s>>
    ELSE LET k == CHOOSE x \in at : \A y \in at : x <= y
         IN <<SubSeq(s, 1, k - 1)>> \o Split(SubSeq(s, k + 1, Len(s)))

\* the value of a string of decimal digits
RECURSIVE DecVal(_)
DecVal(s) == IF Len(s) = 0 THEN 0
             ELSE 10 * DecVal(SubSeq(s, 1, Len(s) - 1)) + DigitVal(s[Len(s)])

\* u32::MAX, 4294967295, digit by digit
U32MaxDigits == <<"4", "2", "9", "4", "9", "6", "7", "2", "9", "5">>

RECURSIVE StripZeros(_)
StripZeros(d) == IF Len(d) > 1 /\ d[1] = "0" THEN StripZeros(Tail(d)) ELSE d

\* the digit strings of equal length a and b: a <= b as numbers
RECURSIVE DigitsLeq(_, _)
DigitsLeq(a, b) ==
    IF Len(a) = 0 THEN TRUE
    ELSE IF DigitVal(a[1]) # DigitVal(b[1]) THEN DigitVal(a[1]) < DigitVal(b[1])
    ELSE DigitsLeq(Tail(a), Tail(b))

\* the digit string d is a number within u32
FitsU32(d) ==
    LET z == StripZeros(d) IN
    \/ Len(z) < Len(U32MaxDigits)
    \/ Len(z) = Len(U32MaxDigits) /\ DigitsLeq(z, U32MaxDigits)

\* str::parse::<u32>: an optional '+', then one or more decimal digits, the
\* value within u32.  [ok, val]
ParseU32(s) ==
    LET d == IF Len(s) > 0 /\ s[1] = "+" THEN Tail(s) ELSE s IN
    IF Len(d) = 0 \/ (\E k \in 1..Len(d) : d[k] \notin Digits)
    THEN [ok |-> FALSE, val |-> 0]
    ELSE IF ~FitsU32(d) THEN [ok |-> FALSE, val |-> 0]
    ELSE [ok |-> TRUE, val |-> DecVal(d)]

\* assert!(v.len() >= 3, ...) with the field count of a 2-field rule accepted
FieldCountOk_two(v) == Len(v) >= 2

\* assert!(v.len() >= 3, "Invalid format, line: {}", line)
FieldCountOk(v) == Len(v) >= 3

\* the ProcProps pushed for the split line v
MakeProcProps(v) ==
    [name      |-> v[1],
     threshold |-> ParseU32(v[2]).val,
     whitelist |-> SubSeq(v, 3, Len(v))]

\* the lines a rules file is made of, as field lists
FileLineFields ==
    { <<svc, <<"1">>, path_P>>,              \* svc;1;/P
      <<sv, <<"2">>, path_x, err_text>>,     \* sv;2;/x;E
      <<svc, <<"1">>>>,                      \* svc;1      (two fields)
      <<>>,                                  \* the empty line
      <<svc, <<"x">>, path_P>> }             \* svc;x;/P   (threshold not a number)

----------------------------------------------------------------------------
(* strsim *)

Min3(a, b, c) == Min2(a, Min2(b, c))
MaxOf(S) == CHOOSE x \in S : \A y \in S : y <= x

\* strsim::levenshtein: insertions, deletions, substitutions
levenshtein(a, b) ==
    LET D[x \in 0..Len(a), y \in 0..Len(b)] ==
            IF x = 0 THEN y
            ELSE IF y = 0 THEN x
            ELSE Min3(D[x - 1, y] + 1,
                      D[x, y - 1] + 1,
                      D[x - 1, y - 1] + (IF a[x] = b[y] THEN 0 ELSE 1))
    IN D[Len(a), Len(b)]

\* strsim::damerau_levenshtein: insertions, deletions, substitutions and
\* transpositions of adjacent characters (the unrestricted distance), by the
\* table of the distances between the prefixes.  t holds the rows 0..x-1 and
\* row the cells 0..y-1 of row x; cell (x, y) is at t[x + 1][y + 1].
DLCell(a, b, t, row, x, y) ==
    IF x = 0 THEN y
    ELSE IF y = 0 THEN x
    ELSE LET K == {k \in 1..(x - 1) : a[k] = b[y]}
             L == {l \in 1..(y - 1) : b[l] = a[x]}
             base == Min3(t[x][y + 1] + 1,
                          row[y] + 1,
                          t[x][y] + (IF a[x] = b[y] THEN 0 ELSE 1))
         IN IF K = {} \/ L = {} THEN base
            ELSE LET k == MaxOf(K)
                     l == MaxOf(L)
                 IN Min2(base, t[k][l] + (x - k - 1) + 1 + (y - l - 1))

RECURSIVE DLRow(_, _, _, _, _, _)
DLRow(a, b, t, row, x, y) ==
    IF y > Len(b) THEN row
    ELSE DLRow(a, b, t, Append(row, DLCell(a, b, t, row, x, y)), x, y + 1)

RECURSIVE DLTable(_, _, _, _)
DLTable(a, b, t, x) ==
    IF x > Len(a) THEN t
    ELSE DLTable(a, b, Append(t, DLRow(a, b, t, <<>>, x, 0)), x + 1)

damerau_levenshtein(a, b) == DLTable(a, b, <<>>, 0)[Len(a) + 1][Len(b) + 1]

----------------------------------------------------------------------------
(* The detector: unix_check_procs_impers / win_check_procs_impers *)

\* the call with the metric that has no transposition
name_distance_lev(a, b) == levenshtein(a, b)

\* let threshold = damerau_levenshtein(&sys_proc.comm, &crit_proc.name)
name_distance(a, b) == damerau_levenshtein(a, b)

\* paths compared with their letter case folded
FoldCase(ch) == IF ch = "P" THEN "p" ELSE ch
FoldPath(p) == [k \in 1..Len(p) |-> FoldCase(p[k])]
is_whitelisted_nocase(proc_path, whitelist) ==
    \E k \in 1..Len(whitelist) : FoldPath(whitelist[k]) = FoldPath(proc_path)

\* whitelist.iter().any(|p| p == proc_path)
is_whitelisted(proc_path, whitelist) ==
    \E k \in 1..Len(whitelist) : whitelist[k] = proc_path

\* threshold > 0 && threshold <= crit_proc.threshold as usize: the part of the
\* condition evaluated before the path is looked at
InRange(threshold, crit_proc) ==
    threshold > 0 /\ threshold <= crit_proc.threshold

\* the condition with distance 0 let through
IsSuspicious_ge0(threshold, crit_proc, path) ==
    /\ threshold >= 0 /\ threshold <= crit_proc.threshold
    /\ ~is_whitelisted(path, crit_proc.whitelist)

\* the condition with the threshold itself excluded
IsSuspicious_lt(threshold, crit_proc, path) ==
    /\ threshold > 0 /\ threshold < crit_proc.threshold
    /\ ~is_whitelisted(path, crit_proc.whitelist)

\* if threshold > 0 && threshold <= crit_proc.threshold as usize &&
\*    !is_whitelisted(path, &crit_proc.whitelist)
IsSuspicious(threshold, crit_proc, path) ==
    /\ InRange(threshold, crit_proc)
    /\ ~is_whitelisted(path, crit_proc.whitelist)

\* exe() failing gives the empty path
UnixExePath_empty(res) == IF res.ok THEN res.path ELSE <<>>

\* match sys_proc.exe() { Ok(path) => path, Err(why) => PathBuf::from(why.to_string()) }
UnixExePath(res) == IF res.ok THEN res.path ELSE res.why

\* the loop over the processes ending one process early
ProcLoopDone_early(next, n) == next >= n

\* for sys_proc in sys_procs_vec.iter(): no element is left
ProcLoopDone(next, n) == next > n

\* the "Suspicious: {} <-> {} : distance {}" line of the pair (p, q)
Finding(p, q, observed, rule, d) ==
    [proc |-> p, rule |-> q, observed_name |-> observed,
     rule_name |-> rule.name, distance |-> d]

----------------------------------------------------------------------------
(* Inputs from the environment *)

\* the comm of a process psutil lists
ProcNames == {svc, scv, c1}
\* the results of Process::exe()
ExeResults ==
    { [ok |-> TRUE,  path |-> path_p,   why |-> <<>>],
      [ok |-> TRUE,  path |-> non_utf8, why |-> <<>>],
      [ok |-> FALSE, path |-> <<>>,     why |-> err_text] }
\* the base names and file names of the modules Windows reports
WinNames == {svc, scv}
WinPaths == {path_P, <<"/", lone_surrogate>>}

RECURSIVE SeqsUpTo(_, _)
SeqsUpTo(S, n) ==
    IF n = 0 THEN {<<>>}
    ELSE LET shorter == SeqsUpTo(S, n - 1)
         IN shorter \cup {Append(q, x) : q \in {t \in shorter : Len(t) = n - 1}, x \in S}

----------------------------------------------------------------------------
(* Wide-character buffers of read_win_system_procs *)

ZeroBuf(size) == [k \in 1..size |-> NUL]

\* K32GetModuleBaseNameW / K32GetModuleFileNameExW writing the string w into
\* a buffer of `size` characters: the string and its terminator, the rest of
\* the buffer left as it was; a string that does not fit is truncated
WriteWide(buf, w, size) ==
    IF Len(w) < size
    THEN [k \in 1..size |-> IF k <= Len(w) THEN w[k]
                            ELSE IF k = Len(w) + 1 THEN NUL ELSE buf[k]]
    ELSE [k \in 1..size |-> w[k]]

\* String::from_utf16(&buf[..]) is Ok
Utf16Ok(buf) == \A k \in 1..Len(buf) : buf[k] # lone_surrogate

\* String::from_utf16(&buf[..]).unwrap().split('\u{0}').next().unwrap_or("")
DecodeWide(buf) ==
    LET nul == {k \in 1..Len(buf) : buf[k] = NUL} IN
    IF nul = {} THEN buf
    ELSE SubSeq(buf, 1, (CHOOSE k \in nul : \A m \in nul : k <= m) - 1)

----------------------------------------------------------------------------
(* main, up to the enumeration *)

Init ==
    /\ platform \in {"unix", "windows"}
    \* on windows the flag changes only what is printed
    /\ verb_mode \in IF platform = "unix" THEN BOOLEAN ELSE {FALSE}
    /\ pc = "main"
    /\ panic_msg = ""
    /\ line = [n |-> 0, text |-> <<>>]
    /\ crit_proc_vec = <<>>
    /\ sys_procs_vec = <<>>
    /\ enumerated = FALSE
    /\ enum_error = FALSE
    /\ processes = <<>>
    /\ i = 1
    /\ win_pc = "open"
    /\ h_process = 0
    /\ open_handles = {}
    /\ sz_process_name = ZeroBuf(NAME_SZ)
    /\ sz_process_path = ZeroBuf(PATH_SZ)
    /\ win_procs = <<>>
    /\ win_log = <<>>
    /\ pi = 0
    /\ ri = 0
    /\ exe_path = <<>>
    /\ exe_log = <<>>
    /\ susp_procs = 0
    /\ findings = <<>>
    /\ compared = 0
    /\ r = 0
    /\ final_count = -1

Panic(msg) == pc' = "panicked" /\ panic_msg' = msg

\* main: if libc::geteuid() != 0 { ...; exit(0) }  (cfg(unix) only)
PrivilegeCheck ==
    /\ pc = "main"
    /\ \E euid \in {0, 1000} :
         pc' = IF platform = "unix" /\ euid # 0 THEN "exited" ELSE "read_procs_file"
    /\ UNCHANGED <<platform, verb_mode, panic_msg, fileVars, sys_procs_vec,
                   enumerated, enum_error, winVars, detVars, r, final_count>>

\* read_procs_file: File::open
OpenProcsFile ==
    /\ pc = "read_procs_file"
    /\ \E opened \in BOOLEAN :
         IF opened THEN pc' = "read_lines" /\ panic_msg' = panic_msg
         ELSE Panic("couldn't open")
    /\ UNCHANGED <<platform, verb_mode, fileVars, sys_procs_vec,
                   enumerated, enum_error, winVars, detVars, r, final_count>>

\* read_procs_file: one iteration of `for line in lines`
ReadLine ==
    /\ pc = "read_lines"
    /\ Len(crit_proc_vec) < MaxLines
    /\ \E f \in FileLineFields :
         LET text == Join(f)
             v    == Split(text)
         IN /\ line' = [n |-> line.n + 1, text |-> text]
            /\ IF ~FieldCountOk(v)
               THEN Panic("Invalid format") /\ crit_proc_vec' = crit_proc_vec
               ELSE IF ~ParseU32(v[2]).ok
               THEN Panic("ParseIntError") /\ crit_proc_vec' = crit_proc_vec
               ELSE /\ crit_proc_vec' = Append(crit_proc_vec, MakeProcProps(v))
                    /\ UNCHANGED <<pc, panic_msg>>
    /\ UNCHANGED <<platform, verb_mode, sys_procs_vec,
                   enumerated, enum_error, winVars, detVars, r, final_count>>

\* read_procs_file: the lines are exhausted, procs is returned to main
EndOfFile ==
    /\ pc = "read_lines"
    /\ pc' = "enumerate"
    /\ UNCHANGED <<platform, verb_mode, panic_msg, fileVars, sys_procs_vec,
                   enumerated, enum_error, winVars, detVars, r, final_count>>

----------------------------------------------------------------------------
(* cfg(unix): read_unix_system_procs and unix_check_procs_impers *)

\* psutil::process::all().unwrap()
ReadUnixSystemProcs ==
    /\ pc = "enumerate" /\ platform = "unix"
    /\ enumerated' = TRUE
    /\ \/ /\ Panic("psutil::process::all")
          /\ UNCHANGED sys_procs_vec
       \/ /\ \E names \in SeqsUpTo(ProcNames, MaxProcs) :
               sys_procs_vec' = [k \in 1..Len(names) |-> [comm |-> names[k]]]
          /\ pc' = "check"
          /\ UNCHANGED panic_msg
    /\ UNCHANGED <<platform, verb_mode, fileVars, enum_error, winVars, detVars,
                   r, final_count>>

\* unix_check_procs_impers: the head of the outer loop body, lines 322-332
UnixNextProc ==
    /\ pc = "check" /\ platform = "unix"
    /\ pi = 0 \/ ri > Len(crit_proc_vec)
    /\ ~ProcLoopDone(pi + 1, Len(sys_procs_vec))
    /\ \E res \in ExeResults :
         /\ exe_path' = UnixExePath(res)
         /\ exe_log' = Append(exe_log, res)
         /\ IF verb_mode /\ UnixExePath(res) = non_utf8
            THEN Panic("to_str().unwrap()")
            ELSE UNCHANGED <<pc, panic_msg>>
    /\ pi' = pi + 1
    /\ ri' = 1
    /\ UNCHANGED <<platform, verb_mode, fileVars, sys_procs_vec, enumerated,
                   enum_error, winVars, susp_procs, findings, compared, r, final_count>>

\* unix_check_procs_impers: one iteration of the inner loop, lines 334-350
UnixCheckRule ==
    /\ pc = "check" /\ platform = "unix"
    /\ pi >= 1 /\ ri <= Len(crit_proc_vec)
    /\ LET sys_proc  == sys_procs_vec[pi]
           crit_proc == crit_proc_vec[ri]
           threshold == name_distance(sys_proc.comm, crit_proc.name)
       IN /\ compared' = compared + 1
          /\ IF InRange(threshold, crit_proc) /\ exe_path = non_utf8
             THEN Panic("to_str().unwrap()") /\ UNCHANGED <<susp_procs, findings>>
             ELSE /\ UNCHANGED <<pc, panic_msg>>
                  /\ IF IsSuspicious(threshold, crit_proc, exe_path)
                     THEN /\ findings' = Append(findings,
                                 Finding(pi, ri, sys_proc.comm, crit_proc, threshold))
                          /\ susp_procs' = susp_procs + 1
                     ELSE UNCHANGED <<susp_procs, findings>>
    /\ ri' = ri + 1
    /\ UNCHANGED <<platform, verb_mode, fileVars, sys_procs_vec, enumerated,
                   enum_error, winVars, pi, exe_path, exe_log, r, final_count>>

\* unix_check_procs_impers returns susp_procs; main: r = ...
UnixReturn ==
    /\ pc = "check" /\ platform = "unix"
    /\ pi = 0 \/ ri > Len(crit_proc_vec)
    /\ ProcLoopDone(pi + 1, Len(sys_procs_vec))
    /\ r' = susp_procs
    /\ pc' = "report"
    /\ UNCHANGED <<platform, verb_mode, panic_msg, fileVars, sys_procs_vec,
                   enumerated, enum_error, winVars, detVars, final_count>>

----------------------------------------------------------------------------
(* cfg(windows): read_win_system_procs *)

\* the PID the loop is at
process_id == processes[i]

\* the history entry of the PID the loop is at, changed by upd
LogLast(upd) ==
    [win_log EXCEPT ![Len(win_log)] = upd @@ win_log[Len(win_log)]]

\* `continue`: on to the next PID (the handle is not closed)
Continue == i' = i + 1 /\ win_pc' = "open"

\* K32EnumProcesses(pids, SIZE * 4, &mut written); on 0 the empty vector is
\* returned to main, which goes on to win_check_procs_impers
K32EnumProcesses ==
    /\ pc = "enumerate" /\ platform = "windows"
    /\ enumerated' = TRUE
    /\ \/ /\ enum_error' = TRUE
          /\ sys_procs_vec' = win_procs
          /\ pc' = "check"
          /\ UNCHANGED processes
       \/ /\ \E n \in 0..Min2(MaxProcs, SIZE) :
               processes' = [k \in 1..n |-> 4 * k]
          /\ pc' = "win_loop"
          /\ UNCHANGED <<enum_error, sys_procs_vec>>
    /\ UNCHANGED <<platform, verb_mode, panic_msg, fileVars, i, win_pc, h_process,
                   open_handles, sz_process_name, sz_process_path, win_procs,
                   win_log, detVars, r, final_count>>

\* OpenProcess(PROCESS_QUERY_INFORMATION | PROCESS_VM_READ, FALSE, process_id);
\* with a null handle the iteration goes straight to the decoding of the buffers
WinOpenProcess ==
    /\ pc = "win_loop" /\ win_pc = "open"
    /\ i <= Len(processes)
    /\ \E opened \in BOOLEAN :
         /\ h_process' = IF opened THEN process_id ELSE 0
         /\ open_handles' = IF opened THEN open_handles \cup {process_id}
                            ELSE open_handles
         /\ win_pc' = IF opened THEN "enum_modules" ELSE "decode"
         /\ win_log' = Append(win_log,
                [pid |-> process_id, opened |-> opened, name_ok |-> FALSE,
                 path_ok |-> FALSE, name |-> <<>>, path |-> <<>>, pushed |-> FALSE])
    /\ UNCHANGED <<platform, verb_mode, pc, panic_msg, fileVars, sys_procs_vec,
                   enumerated, enum_error, processes, i, sz_process_name,
                   sz_process_path, win_procs, detVars, r, final_count>>

\* if K32EnumProcessModulesEx(h_process, h_mod, ..) > 0 { "failed"; continue }
WinEnumModules ==
    /\ pc = "win_loop" /\ win_pc = "enum_modules"
    /\ \E ret \in {0, 1} :
         IF ret > 0 THEN Continue ELSE i' = i /\ win_pc' = "base_name"
    /\ UNCHANGED <<platform, verb_mode, pc, panic_msg, fileVars, sys_procs_vec,
                   enumerated, enum_error, processes, h_process, open_handles,
                   sz_process_name, sz_process_path, win_procs, win_log, detVars,
                   r, final_count>>

\* K32GetModuleBaseNameW(h_process, *h_mod, sz_process_name, NAME_SZ): h_mod
\* is the null pointer, so reading *h_mod either ends the process or yields
\* some value with which the call is made
WinGetBaseName ==
    /\ pc = "win_loop" /\ win_pc = "base_name"
    /\ \/ /\ pc' = "crashed"
          /\ UNCHANGED <<i, win_pc, sz_process_name, win_log>>
       \/ /\ Continue
          /\ UNCHANGED <<pc, sz_process_name, win_log>>
       \/ /\ \E name \in WinNames :
               /\ sz_process_name' = WriteWide(sz_process_name, name, NAME_SZ)
               /\ win_log' = LogLast([name_ok |-> TRUE, name |-> name])
          /\ win_pc' = "file_name"
          /\ UNCHANGED <<pc, i>>
    /\ UNCHANGED <<platform, verb_mode, panic_msg, fileVars, sys_procs_vec,
                   enumerated, enum_error, processes, h_process, open_handles,
                   sz_process_path, win_procs, detVars, r, final_count>>

\* K32GetModuleFileNameExW(h_process, *h_mod, sz_process_path, PATH_SZ)
WinGetFileName ==
    /\ pc = "win_loop" /\ win_pc = "file_name"
    /\ \/ /\ pc' = "crashed"
          /\ UNCHANGED <<i, win_pc, sz_process_path, win_log>>
       \/ /\ Continue
          /\ UNCHANGED <<pc, sz_process_path, win_log>>
       \/ /\ \E path \in WinPaths :
               /\ sz_process_path' = WriteWide(sz_process_path, path, PATH_SZ)
               /\ win_log' = LogLast([path_ok |-> TRUE, path |-> path])
          /\ win_pc' = "decode"
          /\ UNCHANGED <<pc, i>>
    /\ UNCHANGED <<platform, verb_mode, panic_msg, fileVars, sys_procs_vec,
                   enumerated, enum_error, processes, h_process, open_handles,
                   sz_process_name, win_procs, detVars, r, final_count>>

\* lines 254-272: both buffers are decoded and, when neither string is
\* empty, a WinProc is pushed
WinDecodePush ==
    /\ pc = "win_loop" /\ win_pc = "decode"
    /\ IF ~Utf16Ok(sz_process_name) \/ ~Utf16Ok(sz_process_path)
       THEN /\ Panic("from_utf16().unwrap()")
            /\ UNCHANGED <<i, win_pc, win_procs, win_log>>
       ELSE LET name_str == DecodeWide(sz_process_name)
                path_str == DecodeWide(sz_process_path)
                push     == name_str # <<>> /\ path_str # <<>>
            IN /\ win_procs' = IF push
                               THEN Append(win_procs,
                                           [name |-> name_str, exe_path |-> path_str])
                               ELSE win_procs
               /\ win_log' = LogLast([pushed |-> push])
               /\ Continue
               /\ UNCHANGED <<pc, panic_msg>>
    /\ UNCHANGED <<platform, verb_mode, fileVars, sys_procs_vec,
                   enumerated, enum_error, processes, h_process, open_handles,
                   sz_process_name, sz_process_path, detVars, r, final_count>>

\* read_win_system_procs returns win_procs; main: sys_procs_vec = ...
WinReturn ==
    /\ pc = "win_loop" /\ win_pc = "open"
    /\ i > Len(processes)
    /\ sys_procs_vec' = win_procs
    /\ pc' = "check"
    /\ UNCHANGED <<platform, verb_mode, panic_msg, fileVars, enumerated,
                   enum_error, winVars, detVars, r, final_count>>

----------------------------------------------------------------------------
(* cfg(windows): win_check_procs_impers *)

\* the head of the outer loop body, lines 285-290
WinNextProc ==
    /\ pc = "check" /\ platform = "windows"
    /\ pi = 0 \/ ri > Len(crit_proc_vec)
    /\ ~ProcLoopDone(pi + 1, Len(sys_procs_vec))
    /\ pi' = pi + 1
    /\ ri' = 1
    /\ UNCHANGED <<platform, verb_mode, pc, panic_msg, fileVars, sys_procs_vec,
                   enumerated, enum_error, winVars, exe_path, exe_log, susp_procs,
                   findings, compared, r, final_count>>

\* one iteration of the inner loop, lines 292-308
WinCheckRule ==
    /\ pc = "check" /\ platform = "windows"
    /\ pi >= 1 /\ ri <= Len(crit_proc_vec)
    /\ LET sys_proc  == sys_procs_vec[pi]
           crit_proc == crit_proc_vec[ri]
           threshold == name_distance(sys_proc.name, crit_proc.name)
       IN /\ compared' = compared + 1
          /\ IF IsSuspicious(threshold, crit_proc, sys_proc.exe_path)
             THEN /\ findings' = Append(findings,
                         Finding(pi, ri, sys_proc.name, crit_proc, threshold))
                  /\ susp_procs' = susp_procs + 1
             ELSE UNCHANGED <<susp_procs, findings>>
    /\ ri' = ri + 1
    /\ UNCHANGED <<platform, verb_mode, pc, panic_msg, fileVars, sys_procs_vec,
                   enumerated, enum_error, winVars, pi, exe_path, exe_log,
                   r, final_count>>

\* win_check_procs_impers returns susp_procs; main: r = ...
WinCheckReturn ==
    /\ pc = "check" /\ platform = "windows"
    /\ pi = 0 \/ ri > Len(crit_proc_vec)
    /\ ProcLoopDone(pi + 1, Len(sys_procs_vec))
    /\ r' = susp_procs
    /\ pc' = "report"
    /\ UNCHANGED <<platform, verb_mode, panic_msg, fileVars, sys_procs_vec,
                   enumerated, enum_error, winVars, detVars, final_count>>

----------------------------------------------------------------------------
(* main: the report *)

\* println!("Found {} suspicious processes.\n{}", r, "Done!")
Report ==
    /\ pc = "report"
    /\ final_count' = r
    /\ pc' = "done"
    /\ UNCHANGED <<platform, verb_mode, panic_msg, fileVars, sys_procs_vec,
                   enumerated, enum_error, winVars, detVars, r>>

Next ==
    \/ PrivilegeCheck
    \/ OpenProcsFile
    \/ ReadLine
    \/ EndOfFile
    \/ ReadUnixSystemProcs
    \/ UnixNextProc
    \/ UnixCheckRule
    \/ UnixReturn
    \/ K32EnumProcesses
    \/ WinOpenProcess
    \/ WinEnumModules
    \/ WinGetBaseName
    \/ WinGetFileName
    \/ WinDecodePush
    \/ WinReturn
    \/ WinNextProc
    \/ WinCheckRule
    \/ WinCheckReturn
    \/ Report

Spec == Init /\ [][Next]_vars

----------------------------------------------------------------------------
(* Vocabulary of the properties *)

\* the detector has returned its count to main
DetectorReturned == pc \in {"report", "done"}

\* name and executable path of the k-th observed process, as the OS gave them
ObservedName(k) ==
    IF platform = "unix" THEN sys_procs_vec[k].comm ELSE sys_procs_vec[k].name
ObservedPath(k) ==
    IF platform = "unix"
    THEN (IF exe_log[k].ok THEN exe_log[k].path ELSE exe_log[k].why)
    ELSE sys_procs_vec[k].exe_path

\* 0 < distance(process name, rule name) <= rule.threshold
WithinThreshold(k, j) ==
    LET d == damerau_levenshtein(ObservedName(k), crit_proc_vec[j].name)
    IN 0 < d /\ d <= crit_proc_vec[j].threshold

\* the path of process k is, character for character, an entry of rule j's whitelist
ExactlyListed(k, j) ==
    \E w \in 1..Len(crit_proc_vec[j].whitelist) :
        crit_proc_vec[j].whitelist[w] = ObservedPath(k)

\* the path of process k differs from an entry of rule j's whitelist in letter case only
ListedUpToCase(k, j) ==
    /\ ~ExactlyListed(k, j)
    /\ \E w \in 1..Len(crit_proc_vec[j].whitelist) :
          FoldPath(crit_proc_vec[j].whitelist[w]) = FoldPath(ObservedPath(k))

\* the (process, rule) pairs of the cross product that meet the match policy
MatchingPairs ==
    {p \in (1..Len(sys_procs_vec)) \X (1..Len(crit_proc_vec)) :
        WithinThreshold(p[1], p[2]) /\ ~ExactlyListed(p[1], p[2])}

\* how many "Suspicious" lines were printed for the pair (k, j)
NumFindings(k, j) ==
    Cardinality({n \in 1..Len(findings) :
                    findings[n].proc = k /\ findings[n].rule = j})

\* the detector has finished comparing process k with rule j
Compared(k, j) ==
    /\ pc \in {"check", "report", "done"}
    /\ k \in 1..Len(sys_procs_vec) /\ j \in 1..Len(crit_proc_vec)
    /\ k < pi \/ (k = pi /\ j < ri)

\* b is a with two adjacent, distinct characters swapped
Transposed(a, b) ==
    /\ Len(a) = Len(b)
    /\ \E x \in 1..(Len(a) - 1) :
          /\ a[x] # a[x + 1]
          /\ b = [a EXCEPT ![x] = a[x + 1], ![x + 1] = a[x]]

\* the positions of the ';' in the last line read
Semicolons == {k \in 1..Len(line.text) : line.text[k] = ";"}

\* the text between the first and the second ';' of the last line read
ThresholdText ==
    LET s1 == CHOOSE x \in Semicolons : \A y \in Semicolons : x <= y
        rest == Semicolons \ {s1}
        s2 == CHOOSE x \in rest : \A y \in rest : x <= y
    IN SubSeq(line.text, s1 + 1, s2 - 1)

\* the last line read has fewer than three fields
TooFewFields == line.n > 0 /\ Cardinality(Semicolons) < 2

\* the last line read has three fields or more and a threshold that is no number
\* (a '+' before the digits is part of a number)
ThresholdNotNumeric ==
    /\ line.n > 0 /\ Cardinality(Semicolons) >= 2
    /\ LET t == IF ThresholdText # <<>> /\ ThresholdText[1] = "+"
                THEN Tail(ThresholdText) ELSE ThresholdText
       IN t = <<>> \/ \E k \in 1..Len(t) : t[k] \notin Digits

\* the WinProcs of the PIDs whose name and path were both resolved, in order
RECURSIVE ResolvedOf(_)
ResolvedOf(log) ==
    IF Len(log) = 0 THEN <<>>
    ELSE LET e == log[Len(log)]
             before == ResolvedOf(SubSeq(log, 1, Len(log) - 1))
         IN IF e.name_ok /\ e.path_ok
            THEN Append(before, [name |-> e.name, exe_path |-> e.path])
            ELSE before

----------------------------------------------------------------------------
(* Properties *)

\* C1: the count the detector returns is the number of (process, rule) pairs of
\* the full cross product with 0 < distance <= threshold and a path that is not
\* in the rule's whitelist; a process matching k rules adds k, and one
\* "Suspicious" line is printed per counted pair.
C1_CountIsCrossProduct ==
    DetectorReturned =>
        /\ r = Cardinality(MatchingPairs)
        /\ Len(findings) = r
        /\ pc = "done" => final_count = r

\* a run where one process matched two rules and was counted twice
C1_Witness ==
    /\ pc = "done" /\ final_count >= 2
    /\ \E k \in 1..Len(sys_procs_vec) :
          Cardinality({p \in MatchingPairs : p[1] = k}) >= 2

\* C2: a process whose name is identical to the rule's name is never reported
\* for that rule, whatever its path and the rule's whitelist.
C2_IdenticalNameNeverSuspicious ==
    \A n \in 1..Len(findings) :
        /\ findings[n].observed_name # findings[n].rule_name
        /\ ObservedName(findings[n].proc) # crit_proc_vec[findings[n].rule].name

\* a process named as the rule, at a path the rule does not whitelist, was
\* compared and not reported
C2_Witness ==
    \E k \in 1..Len(sys_procs_vec), j \in 1..Len(crit_proc_vec) :
        /\ DetectorReturned /\ Compared(k, j)
        /\ ObservedName(k) = crit_proc_vec[j].name
        /\ ~ExactlyListed(k, j)
        /\ NumFindings(k, j) = 0

C4_OnlyResolvedPidsListed ==
    (platform = "windows" /\ win_pc = "open") => win_procs = ResolvedOf(win_log)

\* C5: a failure of the top-level call that lists the processes gives an empty
\* result with an error message, and the run never ends with
\* "Found 0 suspicious processes / Done!".
C5_EnumFailureNotReportedAsClean ==
    (enum_error \/ panic_msg = "psutil::process::all") =>
        /\ sys_procs_vec = <<>>
        /\ ~(pc = "done" /\ final_count = 0)

C7_UnixExeFailureKeepsProcess ==
    platform = "unix" =>
        /\ \A k \in 1..Len(exe_log), j \in 1..Len(crit_proc_vec) :
              (~exe_log[k].ok /\ Compared(k, j)) =>
                  NumFindings(k, j) =
                      IF /\ WithinThreshold(k, j)
                         /\ \A w \in 1..Len(crit_proc_vec[j].whitelist) :
                               crit_proc_vec[j].whitelist[w] # exe_log[k].why
                      THEN 1 ELSE 0
        /\ \A k \in 1..Len(exe_log) :
              ~exe_log[k].ok =>
                  \/ pc = "check" /\ pi >= k
                  \/ pc = "panicked" /\ pi > k
                  \/ DetectorReturned /\ \A j \in 1..Len(crit_proc_vec) : Compared(k, j)

\* a process whose exe() failed was reported for one rule, passed by another
\* whose whitelist holds the error text, and the scan went on to the next process
C7_Witness ==
    /\ platform = "unix" /\ DetectorReturned
    /\ \E k \in 1..Len(exe_log) :
          /\ ~exe_log[k].ok /\ k < Len(sys_procs_vec)
          /\ \E j \in 1..Len(crit_proc_vec) : NumFindings(k, j) = 1
          /\ \E j \in 1..Len(crit_proc_vec) :
                WithinThreshold(k, j) /\ NumFindings(k, j) = 0

C9_HandlesReleased ==
    (platform = "windows" /\ win_pc = "open") => open_handles = {}

====
